---- MODULE Spec2Model ----
(***************************************************************************)
(* A model of the ROCm vector-add micro-benchmark drivers: the six         *)
(* revisions of the driver program, the error-check layer, the device      *)
(* buffer owner, the device kernel and the runtime's streams.              *)
(*                                                                         *)
(* Each driver revision is written down as the sequence of its statements  *)
(* (one record per source statement, with the check that wraps the runtime *)
(* call and the context string handed to it); the actions below execute    *)
(* one statement of one host thread, or one queued launch on the device.   *)
(***************************************************************************)
EXTENDS Integers, Sequences, FiniteSets, TLC

(***************************************************************************)
(* Sizes.  The source has LEN = 0x100000 = 32768 * 32 elements, 32 lanes   *)
(* per block and LOOP = 1000 or 5000 launches; the model keeps the shape   *)
(* (LEN is a whole number of blocks) at a size TLC can enumerate.          *)
(***************************************************************************)
NBlocks == 2
THREADS_PER_BLOCK_X == 2
LOOP == 2
MaxDelay == 2
NAddr == 6
NObj == 3

LEN == NBlocks * THREADS_PER_BLOCK_X
SizeofFloat == 4
SIZE == LEN * SizeofFloat
Million == 1000000
FloatMantissa == 24

KERNELNAME == "vectoradd"
NOP_KERNELNAME == "mynop"
FILENAME == "kernel.co"
NOP_FILENAME == "nop.co"

Revs == {"part_001", "part_002", "main_cpp", "part_004", "part_003", "part_000"}
ThrowRevs == {"part_003", "part_000"}
T == {"main", "vadd", "nop"}
Workers == {"vadd", "nop"}
Vec == {"A", "B", "C"}
Streams == {"null", "vaddstream", "nopstream"}

(***************************************************************************)
(* Runtime status codes and the runtime's two tables over them.            *)
(***************************************************************************)
hipSuccess == 0
StatusCodes == {0, 1, 2}

hipGetErrorString(ec) ==
    CASE ec = 0 -> "no error"
      [] ec = 1 -> "invalid argument"
      [] OTHER  -> "out of memory"

hipGetErrorName(ec) ==
    CASE ec = 0 -> "hipSuccess"
      [] ec = 1 -> "hipErrorInvalidValue"
      [] OTHER  -> "hipErrorOutOfMemory"

\* std::system_category().message(ec): the text std::system_error appends.
SystemCategoryMessage(ec) ==
    CASE ec = 0 -> "Success"
      [] ec = 1 -> "Operation not permitted"
      [] OTHER  -> "No such file or directory"

\* variant: the symbolic name and the description change places
message_nameFirst(ec, what) ==
    <<what, ": ", hipGetErrorName(ec), " (", hipGetErrorString(ec), ")">>

(***************************************************************************)
(* HIPError::message: the string is built by successive appends.           *)
(***************************************************************************)
message(ec, what) ==
    LET s0 == <<what>>
        s1 == Append(s0, ": ")
        s2 == Append(s1, hipGetErrorString(ec))
        s3 == Append(s2, " (")
        s4 == Append(s3, hipGetErrorName(ec))
        s5 == Append(s4, ")")
    IN  s5

\* HIPError(ec, what): std::system_error(ec, system_category(), message(ec, what));
\* what() of the raised object is the message followed by ": " and the category text.
HIPError(ec, what) ==
    [code |-> ec, what |-> message(ec, what) \o <<": ", SystemCategoryMessage(ec)>>]

\* per thread: code and what() of the exception raised, and (for reference)
\* the status and context the check was called with
NoExc == [code |-> hipSuccess, what |-> <<>>, note |-> ""]

(***************************************************************************)
(* Single-precision values.  Every value the drivers store is a            *)
(* non-negative integer; a float holds it exactly up to 2^24 and rounds to *)
(* nearest-even above.  Garbage stands for the content of memory that was  *)
(* never written.                                                          *)
(***************************************************************************)
Garbage == 0 - 1

RECURSIVE Pow2(_)
Pow2(n) == IF n = 0 THEN 1 ELSE 2 * Pow2(n - 1)

RECURSIVE UlpOf(_, _)
UlpOf(n, u) == IF n < Pow2(FloatMantissa) * u THEN u ELSE UlpOf(n, 2 * u)

ToFloat(n) ==
    LET u == UlpOf(n, 1)
        q == n \div u
        r == n % u
    IN  IF 2 * r < u THEN q * u
        ELSE IF 2 * r > u THEN (q + 1) * u
        ELSE IF q % 2 = 0 THEN q * u ELSE (q + 1) * u

FloatAdd(x, y) == IF x = Garbage \/ y = Garbage THEN Garbage ELSE ToFloat(x + y)

Arr(n, v) == [i \in 0 .. n - 1 |-> v]

(***************************************************************************)
(* The device kernels.                                                     *)
(***************************************************************************)
\* int i = hipBlockDim_x * hipBlockIdx_x + hipThreadIdx_x;
LaneIndex(blockDim, blockIdx, threadIdx) == blockDim * blockIdx + threadIdx

Lanes(grid, block) == (0 .. grid - 1) \X (0 .. block - 1)

LaneIndices(grid, block) == {LaneIndex(block, l[1], l[2]) : l \in Lanes(grid, block)}

LaneCount(grid, block, j) ==
    Cardinality({l \in Lanes(grid, block) : LaneIndex(block, l[1], l[2]) = j})

\* variant: the kernel stores b[i] alone
vectoradd_dropC(a, b, c, grid, block) ==
    [j \in DOMAIN a |->
        IF j \in LaneIndices(grid, block)
        THEN (IF j \in DOMAIN b THEN b[j] ELSE Garbage)
        ELSE a[j]]

\* a[i] = b[i] + c[i] for every lane; a, b, c are the contents behind the
\* three arguments (b and c read as Garbage outside their extent).
vectoradd(a, b, c, grid, block) ==
    [j \in DOMAIN a |->
        IF j \in LaneIndices(grid, block)
        THEN FloatAdd(IF j \in DOMAIN b THEN b[j] ELSE Garbage,
                      IF j \in DOMAIN c THEN c[j] ELSE Garbage)
        ELSE a[j]]

\* The no-op kernel: no memory access and no computation.
mynop(a, b, c, grid, block) == a

(***************************************************************************)
(* Launch geometry chosen by runkernel.                                    *)
(***************************************************************************)
\* part_003 / part_000: std::strcmp(name, NOP_KERNELNAME) ? ... : 1
\* part_004 and the inline loops: the add geometry whatever the kernel.
ComparesName(r) == r \in {"part_003", "part_000"}

\* variant: one block more than LEN / THREADS_PER_BLOCK_X
globalr_extraBlock(r, name) == LEN \div THREADS_PER_BLOCK_X + 1

globalr(r, name) ==
    IF ComparesName(r)
    THEN (IF name # NOP_KERNELNAME THEN LEN \div THREADS_PER_BLOCK_X ELSE 1)
    ELSE LEN \div THREADS_PER_BLOCK_X

localr(r, name) ==
    IF ComparesName(r)
    THEN (IF name # NOP_KERNELNAME THEN THREADS_PER_BLOCK_X ELSE 1)
    ELSE THREADS_PER_BLOCK_X

\* Which runs runkernel makes, and how it scales the throughput figure.
HasLatencyRun(r) == r = "part_003"
UsesStream(r) == r = "part_000"
TputScale(r) == IF r = "main_cpp" THEN 1000 ELSE Million
PrintsLatency(r) == r # "main_cpp"

(***************************************************************************)
(* The drivers as statement sequences.  A statement is                     *)
(*   op    what it does                                                    *)
(*   x     the vector, argument set or variant it applies to               *)
(*   fn    the kernel it launches                                          *)
(*   chk   how the status of its runtime call is checked:                  *)
(*         "throw" (errorCheck / hipCheck), "assert" (HIP_ASSERT),         *)
(*         "none" (status dropped)                                         *)
(*   note  the context string handed to the check                          *)
(*   line  its first line in the source file                               *)
(***************************************************************************)
S(op, x, fn, chk, note, line) ==
    [op |-> op, x |-> x, fn |-> fn, chk |-> chk, note |-> note, line |-> line]

\* part_001: raw allocations, one launch, a scan that counts every mismatch.
Prog_part_001 ==
    << S("rtcall", "hipGetDeviceProperties", "", "none", "", 30),
       S("rtcall", "hipModuleLoad", "", "assert", "", 34),
       S("rtcall", "hipModuleGetFunction", "", "assert", "", 35),
       S("showinfo", "", "", "none", "", 37),
       S("hostinit", "sum", "", "none", "", 41),
       S("malloc", "A", "raw", "assert", "", 55),
       S("malloc", "B", "raw", "assert", "", 56),
       S("malloc", "C", "raw", "assert", "", 57),
       S("h2d", "B", "", "assert", "", 59),
       S("h2d", "C", "", "assert", "", 60),
       S("launch", "D", KERNELNAME, "assert", "", 63),
       S("d2h", "A", "", "assert", "", 68),
       S("validate", "all", "", "none", "", 71),
       S("report", "", "", "none", "", 77),
       S("free", "A", "", "assert", "", 83),
       S("free", "B", "", "assert", "", 84),
       S("free", "C", "", "assert", "", 85),
       S("return", "errors", "", "none", "", 90) >>

\* part_002: deviceBO constructed with SIZE as the element count.
Prog_part_002 ==
    << S("rtcall", "hipGetDeviceProperties", "", "none", "", 44),
       S("rtcall", "hipModuleLoad", "", "assert", "", 48),
       S("rtcall", "hipModuleGetFunction", "", "assert", "", 49),
       S("showinfo", "", "", "none", "", 51),
       S("hostinit", "zero", "", "none", "", 55),
       S("malloc", "A", "SIZE", "assert", "", 65),
       S("malloc", "B", "SIZE", "assert", "", 66),
       S("malloc", "C", "SIZE", "assert", "", 67),
       S("h2d", "B", "", "assert", "", 69),
       S("h2d", "C", "", "assert", "", 70),
       S("launch", "D", KERNELNAME, "assert", "", 76),
       S("d2h", "A", "", "assert", "", 81),
       S("validate", "deref", "", "none", "", 83),
       S("report", "", "", "none", "", 92),
       S("return", "errors", "", "none", "", 97) >>

\* VectorAdd/main.cpp: both phases, the launch loop written inline.
Prog_main_cpp ==
    << S("rtcall", "hipGetDeviceProperties", "", "none", "", 67),
       S("rtcall", "hipModuleLoad", "", "assert", "", 71),
       S("rtcall", "hipModuleGetFunction", "", "assert", "", 72),
       S("showinfo", "", "", "none", "", 74),
       S("hostinit", "zero", "", "none", "", 78),
       S("malloc", "A", "LEN", "assert", "", 88),
       S("malloc", "B", "LEN", "assert", "", 89),
       S("malloc", "C", "LEN", "assert", "", 90),
       S("h2d", "B", "", "assert", "", 93),
       S("h2d", "C", "", "assert", "", 94),
       S("runkernel", "D", KERNELNAME, "assert", "", 104),
       S("d2h", "A", "", "assert", "", 117),
       S("validate", "phase1", "", "none", "", 119),
       S("report", "", "", "none", "", 128),
       S("register", "A", "", "assert", "", 134),
       S("register", "B", "", "assert", "", 135),
       S("register", "C", "", "assert", "", 136),
       S("getdevptr", "A", "", "assert", "", 143),
       S("getdevptr", "B", "", "assert", "", 144),
       S("getdevptr", "C", "", "assert", "", 145),
       S("runkernel", "H", KERNELNAME, "assert", "", 152),
       S("validate", "phase2set", "", "none", "", 165),
       S("unregister", "C", "", "assert", "", 173),
       S("unregister", "B", "", "assert", "", 174),
       S("unregister", "A", "", "assert", "", 175),
       S("report", "", "", "none", "", 177),
       S("return", "errors", "", "none", "", 182) >>

\* part_004: runkernel as a function, the no-op kernel run in phase 2.
Prog_part_004 ==
    << S("rtcall", "hipGetDeviceProperties", "", "assert", "", 87),
       S("rtcall", "hipModuleLoad", "", "assert", "", 91),
       S("rtcall", "hipModuleGetFunction", "", "assert", "", 92),
       S("rtcall", "hipModuleLoad", "", "assert", "", 96),
       S("rtcall", "hipModuleGetFunction", "", "assert", "", 97),
       S("showinfo", "", "", "none", "", 100),
       S("hostinit", "zero", "", "none", "", 104),
       S("malloc", "A", "LEN", "assert", "", 115),
       S("malloc", "B", "LEN", "assert", "", 116),
       S("malloc", "C", "LEN", "assert", "", 117),
       S("h2d", "B", "", "assert", "", 120),
       S("h2d", "C", "", "assert", "", 121),
       S("runkernel", "D", KERNELNAME, "assert", "", 132),
       S("d2h", "A", "", "assert", "", 134),
       S("validate", "phase1", "", "none", "", 137),
       S("report", "", "", "none", "", 146),
       S("register", "A", "", "assert", "", 152),
       S("register", "B", "", "assert", "", 153),
       S("register", "C", "", "assert", "", 154),
       S("getdevptr", "A", "", "assert", "", 161),
       S("getdevptr", "B", "", "assert", "", 162),
       S("getdevptr", "C", "", "assert", "", 163),
       S("runkernel", "H", KERNELNAME, "assert", "", 172),
       S("validate", "phase2", "", "none", "", 174),
       S("runkernel", "H", NOP_KERNELNAME, "assert", "", 186),
       S("unregister", "C", "", "assert", "", 189),
       S("unregister", "B", "", "assert", "", 190),
       S("unregister", "A", "", "assert", "", 191),
       S("report", "", "", "none", "", 193),
       S("return", "errors", "", "none", "", 199) >>

\* part_003: mainworker of the exception-based single-thread revision.
Prog_part_003 ==
    << S("rtcall", "hipGetDeviceProperties", "", "throw", "", 103),
       S("rtcall", "hipModuleLoad", "", "throw", FILENAME, 107),
       S("rtcall", "hipModuleGetFunction", "", "throw", KERNELNAME, 108),
       S("rtcall", "hipModuleLoad", "", "throw", NOP_FILENAME, 112),
       S("rtcall", "hipModuleGetFunction", "", "throw", NOP_KERNELNAME, 113),
       S("showinfo", "", "", "none", "", 116),
       S("hostinit", "zero", "", "none", "", 120),
       S("malloc", "A", "LEN", "throw", "", 131),
       S("malloc", "B", "LEN", "throw", "", 132),
       S("malloc", "C", "LEN", "throw", "", 133),
       S("h2d", "B", "", "throw", "", 136),
       S("h2d", "C", "", "throw", "", 137),
       S("runkernel", "D", KERNELNAME, "throw", "", 148),
       S("d2h", "A", "", "throw", "", 150),
       S("validate", "phase1", "", "none", "", 153),
       S("report", "", "", "none", "", 162),
       S("runkernel", "D", NOP_KERNELNAME, "throw", "", 175),
       S("register", "A", "", "throw", "", 178),
       S("register", "B", "", "throw", "", 179),
       S("register", "C", "", "throw", "", 180),
       S("getdevptr", "A", "", "throw", "", 187),
       S("getdevptr", "B", "", "throw", "", 188),
       S("getdevptr", "C", "", "throw", "", 189),
       S("runkernel", "H", KERNELNAME, "throw", "", 198),
       S("validate", "phase2", "", "none", "", 200),
       S("runkernel", "H", NOP_KERNELNAME, "throw", "", 212),
       S("unregister", "C", "", "throw", "", 215),
       S("unregister", "B", "", "throw", "", 216),
       S("unregister", "A", "", "throw", "", 217),
       S("report", "", "", "none", "", 219),
       S("return", "errors", "", "none", "", 225) >>

\* part_000: mainworkerthread(function, stream, validate), run by each worker.
mainworkerthread(function, validate) ==
    << S("hostinit", "zero", "", "none", "", 61),
       S("malloc", "A", "LEN", "throw", "", 72),
       S("malloc", "B", "LEN", "throw", "", 73),
       S("malloc", "C", "LEN", "throw", "", 74),
       S("h2d", "B", "", "throw", "", 77),
       S("h2d", "C", "", "throw", "", 78),
       S("runkernel", "D", function, "throw", "", 89),
       S("d2h", "A", "", "throw", "", 91),
       S("validate", IF validate THEN "phase1" ELSE "skip", "", "none", "", 94),
       S("report", "", "", "none", "", 105),
       S("register", "A", "", "throw", "", 111),
       S("register", "B", "", "throw", "", 112),
       S("register", "C", "", "throw", "", 113),
       S("getdevptr", "A", "", "throw", "", 120),
       S("getdevptr", "B", "", "throw", "", 121),
       S("getdevptr", "C", "", "throw", "", 122),
       S("runkernel", "H", function, "throw", "", 131),
       S("validate", IF validate THEN "phase2" ELSE "skip", "", "none", "", 133),
       S("unregister", "C", "", "throw", "", 144),
       S("unregister", "B", "", "throw", "", 145),
       S("unregister", "A", "", "throw", "", 146),
       S("report", "", "", "none", "", 148),
       S("return", "errors", "", "none", "", 153) >>

\* part_000: mainworker, which starts and joins the two workers.  HipDevice
\* is declared outside the files at hand: its construction, showInfo and
\* getFunction are runtime calls checked by hipCheck with the file or kernel
\* name as context.
Prog_part_000 ==
    << S("rtcall", "HipDevice", "", "throw", "", 157),
       S("showinfo", "", "", "none", "", 158),
       S("rtcall", "getFunction", "", "throw", FILENAME, 160),
       S("rtcall", "getFunction", "", "throw", NOP_FILENAME, 161),
       S("rtcall", "hipStreamCreateWithFlags", "", "throw", "", 164),
       S("rtcall", "hipStreamCreateWithFlags", "", "throw", "", 167),
       S("spawn", "vadd", "", "none", "", 169),
       S("spawn", "nop", "", "none", "", 170),
       S("join", "vadd", "", "none", "", 172),
       S("join", "nop", "", "none", "", 173),
       S("return", "zero", "", "none", "", 177) >>

\* variant: the validating thread is handed the no-op function
ThreadArgs_nopValidated(w) ==
    IF w = "vadd"
    THEN [function |-> NOP_KERNELNAME, stream |-> "vaddstream", validate |-> TRUE]
    ELSE [function |-> NOP_KERNELNAME, stream |-> "nopstream", validate |-> FALSE]

\* variant: both threads are started with validate == true
ThreadArgs_bothValidate(w) ==
    IF w = "vadd"
    THEN [function |-> KERNELNAME, stream |-> "vaddstream", validate |-> TRUE]
    ELSE [function |-> NOP_KERNELNAME, stream |-> "nopstream", validate |-> TRUE]

\* std::thread(mainworkerthread, vaddfunction, vaddstream, true) and
\* std::thread(mainworkerthread, nopfunction, nopstream, false).
ThreadArgs(w) ==
    IF w = "vadd"
    THEN [function |-> KERNELNAME, stream |-> "vaddstream", validate |-> TRUE]
    ELSE [function |-> NOP_KERNELNAME, stream |-> "nopstream", validate |-> FALSE]

WorkerProgram ==
    [w \in Workers |-> mainworkerthread(ThreadArgs(w).function, ThreadArgs(w).validate)]

Program(r, t) ==
    IF t \in Workers
    THEN WorkerProgram[t]
    ELSE CASE r = "part_001" -> Prog_part_001
           [] r = "part_002" -> Prog_part_002
           [] r = "main_cpp" -> Prog_main_cpp
           [] r = "part_004" -> Prog_part_004
           [] r = "part_003" -> Prog_part_003
           [] OTHER          -> Prog_part_000

\* The stream a thread's launches, copies and synchronizations go to.
StreamOf(r, t) == IF UsesStream(r) /\ t \in Workers THEN ThreadArgs(t).stream ELSE "null"

\* main of part_003 / part_000 drops mainworker's result and returns 0;
\* the older drivers return errors from main.
MainReturns(r, n) == IF r \in ThrowRevs THEN 0 ELSE n

(***************************************************************************)
(* State.                                                                  *)
(***************************************************************************)
VARIABLES
    rev,      \* the driver revision that runs
    pc,       \* per thread: index of its current statement
    tstate,   \* per thread: "idle", "run", "exit" (leaving its scope),
              \*             "unwind" (leaving it with an exception), "done"
    exc,      \* per thread: the exception in flight
    proc,     \* the process: [st |-> "running" | "exited" | "aborted", code]
    failed,   \* some runtime call has returned a non-success status
    hvec,     \* per thread: the contents of hostA, hostB, hostC
    hstate,   \* per thread: "none", "live" or "freed" host vectors
    pinned,   \* per thread: the host vectors registered with the runtime
    pinlog,   \* per thread: register / unregister / free events, in order
    tmp,      \* per thread: tmpA1, tmpB1, tmpC1
    dptr,     \* per thread: the device address held for A, B, C
    owned,    \* per thread: the constructed device buffer owners, in order
    dmem,     \* device memory, by address
    q,        \* per stream: launches submitted and not yet executed
    oob,      \* a kernel lane or a copy went outside a buffer
    errors,   \* per thread: the errors counter
    rk,       \* per thread: position inside runkernel
    metrics,  \* the metrics line printed last
    report,   \* per thread: the PASSED / FAILED lines printed
    stderr,   \* what main's handler wrote to the error stream
    bo,       \* device buffer owners exercised on their own: state and _buffer
    nfree,    \* by address: the hipFree calls made on it by owners' destructors
    got,      \* the address get() returned last
    devfault, \* the lanes whose store a defective device loses
    hostderef \* host code has read through a device address

ctl   == <<pc, tstate, exc, proc>>
hostv == <<hvec, hstate, pinned, pinlog, tmp>>
devv  == <<dptr, owned, dmem, q, oob>>
outv  == <<errors, rk, metrics, report, stderr>>
clsv  == <<bo, nfree, got>>
envv  == <<devfault, hostderef>>
vars  == <<rev, pc, tstate, exc, proc, failed, hvec, hstate, pinned, pinlog, tmp,
           dptr, owned, dmem, q, oob, errors, rk, metrics, report, stderr,
           bo, nfree, got, devfault, hostderef>>

Null == <<"null">>
DevPtr(a) == <<"dev", a>>
HostPtr(t, x) == <<"host", t, x>>

NoData == Arr(0, 0)
RkOff == [st |-> "off", i |-> 0]
NoMetrics == [kind |-> "none", loops |-> 0, delay |-> 0, num |-> 0, den |-> 0, lat |-> 0]

NoOwner == [st |-> "none", buffer |-> Null]

InitState ==
    /\ pc = [t \in T |-> 1]
    /\ exc = [t \in T |-> NoExc]
    /\ proc = [st |-> "running", code |-> 0]
    /\ failed = FALSE
    /\ hvec = [t \in T |-> [x \in Vec |-> NoData]]
    /\ hstate = [t \in T |-> "none"]
    /\ pinned = [t \in T |-> {}]
    /\ pinlog = [t \in T |-> <<>>]
    /\ tmp = [t \in T |-> [x \in Vec |-> Null]]
    /\ dptr = [t \in T |-> [x \in Vec |-> Null]]
    /\ owned = [t \in T |-> <<>>]
    /\ dmem = [a \in 1 .. NAddr |-> [st |-> "unalloc", bytes |-> 0, data |-> NoData]]
    /\ q = [s \in Streams |-> <<>>]
    /\ oob = FALSE
    /\ errors = [t \in T |-> 0]
    /\ rk = [t \in T |-> RkOff]
    /\ metrics = NoMetrics
    /\ report = [t \in T |-> <<>>]
    /\ stderr = <<>>
    /\ bo = [o \in 1 .. NObj |-> NoOwner]
    /\ nfree = [a \in 1 .. NAddr |-> 0]
    /\ got = Null
    /\ hostderef = FALSE

\* a driver starts in main
Init ==
    /\ rev \in Revs
    /\ devfault = {}
    /\ tstate = [t \in T |-> IF t = "main" THEN "run" ELSE "idle"]
    /\ InitState

Cur(t) == Program(rev, t)[pc[t]]
At(t, op) == proc.st = "running" /\ tstate[t] = "run" /\ Cur(t).op = op
Leaving(t) == proc.st = "running" /\ tstate[t] \in {"exit", "unwind"}

(***************************************************************************)
(* The error check.                                                        *)
(***************************************************************************)
Advance(t) == pc' = [pc EXCEPT ![t] = @ + 1] /\ UNCHANGED <<tstate, exc, proc>>
Stay == UNCHANGED <<pc, tstate, exc, proc>>

\* std::abort() from a failed assert or from std::terminate
Abort == proc' = [st |-> "aborted", code |-> 128 + 6] /\ UNCHANGED <<pc, tstate, exc>>

\* errorCheck / hipCheck: if (status != hipSuccess) throw HIPError(status, note);
\* In main's thread the exception travels to the handler in main and the
\* scopes on the way are left.  A worker thread of part_000 has no handler:
\* the throw ends in std::terminate (the implementation need not unwind the
\* stack first, and the process is aborted either way).
errorCheck(t, status, note) ==
    IF status # hipSuccess
    THEN /\ exc' = [exc EXCEPT ![t] = [code |-> HIPError(status, note).code,
                                      what |-> HIPError(status, note).what,
                                      note |-> note]]
         /\ tstate' = [tstate EXCEPT ![t] = "unwind"]
         /\ proc' = IF t \in Workers THEN [st |-> "aborted", code |-> 128 + 6] ELSE proc
         /\ UNCHANGED pc
    ELSE Stay

\* HIP_ASSERT(x): assert((x) == hipSuccess)
HIP_ASSERT(status) == IF status # hipSuccess THEN Abort ELSE Stay

\* A runtime call returned status under check chk; ok is how control goes
\* on when the statement completes.
Checked(t, status, chk, note, ok) ==
    /\ failed' = (failed \/ status # hipSuccess)
    /\ IF status = hipSuccess \/ chk = "none" THEN ok
       ELSE IF chk = "throw" THEN errorCheck(t, status, note)
       ELSE HIP_ASSERT(status)

(***************************************************************************)
(* Memory behind a pointer.                                                *)
(***************************************************************************)
Content(p) ==
    CASE p[1] = "dev"  -> IF dmem[p[2]].st = "live" THEN dmem[p[2]].data ELSE NoData
      [] p[1] = "host" -> IF hstate[p[2]] = "live" THEN hvec[p[2]][p[3]] ELSE NoData
      [] OTHER         -> NoData

\* the first n elements of src laid over dst
CopyInto(dst, src, n) ==
    [j \in DOMAIN dst |-> IF j < n /\ j \in DOMAIN src THEN src[j] ELSE dst[j]]

\* streams a host-side wait covers: hipStreamSynchronize(stream) and
\* hipMemcpyWithStream wait for one stream; hipDeviceSynchronize and hipMemcpy
\* for all submitted work.
Waited(r, t) == IF UsesStream(r) THEN {StreamOf(r, t)} ELSE Streams
\* variant: a wait returns at once
Idle_noWait(r, t) == TRUE

Idle(r, t) == \A s \in Waited(r, t) : q[s] = <<>>

(***************************************************************************)
(* Statements of the drivers.                                              *)
(***************************************************************************)
\* A runtime call whose only modelled outcome is its status.
RtCall(t) ==
    /\ At(t, "rtcall")
    /\ \E status \in StatusCodes :
          Checked(t, status, Cur(t).chk, Cur(t).note, Advance(t))
    /\ UNCHANGED <<rev, envv, clsv, hostv, devv, outv>>

\* std::cout << devProp.name ... / hdevice.showInfo(std::cout)
ShowInfo(t) ==
    /\ At(t, "showinfo")
    /\ Advance(t)
    /\ UNCHANGED <<rev, envv, clsv, failed, hostv, devv, outv>>

\* new float[LEN] three times, then hostB[i] = i; hostC[i] = i * 2; hostA[i] = 0
\* (part_001: hostA[i] = hostB[i] + hostC[i]).
HostInit(t) ==
    /\ At(t, "hostinit")
    /\ LET b == [i \in 0 .. LEN - 1 |-> ToFloat(i)]
           c == [i \in 0 .. LEN - 1 |-> ToFloat(i * 2)]
           a == [i \in 0 .. LEN - 1 |->
                    IF Cur(t).x = "sum" THEN FloatAdd(b[i], c[i]) ELSE 0]
       IN  hvec' = [hvec EXCEPT ![t] = [A |-> a, B |-> b, C |-> c]]
    /\ hstate' = [hstate EXCEPT ![t] = "live"]
    /\ Advance(t)
    /\ UNCHANGED <<rev, envv, clsv, failed, pinned, pinlog, tmp, devv, outv>>

\* Bytes asked of hipMalloc: deviceBO<float>(size) asks size * sizeof(float);
\* part_001 asks SIZE itself.
MallocBytes(how) ==
    CASE how = "raw"  -> SIZE
      [] how = "SIZE" -> SIZE * SizeofFloat
      [] OTHER        -> LEN * SizeofFloat

FreshAddr == {a \in 1 .. NAddr : dmem[a].st = "unalloc"}
Lowest(set) == CHOOSE x \in set : \A y \in set : x <= y

\* deviceBO / DeviceBO constructor (part_001: a bare hipMalloc).  When the
\* checked call throws, the owner is not constructed and no destructor of it
\* will run.
Malloc(t) ==
    /\ At(t, "malloc")
    /\ \E status \in StatusCodes :
          /\ status = hipSuccess => FreshAddr # {}
          /\ Checked(t, status, Cur(t).chk, Cur(t).note, Advance(t))
          /\ IF status = hipSuccess
             THEN LET a == Lowest(FreshAddr)
                      bytes == MallocBytes(Cur(t).fn)
                  IN  /\ dmem' = [dmem EXCEPT ![a] =
                                   [st |-> "live", bytes |-> bytes,
                                    data |-> Arr(bytes \div SizeofFloat, Garbage)]]
                      /\ dptr' = [dptr EXCEPT ![t][Cur(t).x] = DevPtr(a)]
                      /\ owned' = IF Cur(t).fn = "raw" THEN owned
                                  ELSE [owned EXCEPT ![t] = Append(@, Cur(t).x)]
             ELSE UNCHANGED <<dmem, dptr, owned>>
    /\ UNCHANGED <<rev, envv, clsv, hostv, q, oob, outv>>

\* hipFree(p) as the runtime does it
hipFree(dm, p) ==
    IF p[1] = "dev" THEN [dm EXCEPT ![p[2]].st = "freed"] ELSE dm

\* part_001: HIP_ASSERT(hipFree(deviceA)) written out in main
Free(t) ==
    /\ At(t, "free")
    /\ \E status \in StatusCodes :
          /\ Checked(t, status, Cur(t).chk, Cur(t).note, Advance(t))
          /\ dmem' = IF status = hipSuccess THEN hipFree(dmem, dptr[t][Cur(t).x]) ELSE dmem
    /\ UNCHANGED <<rev, envv, clsv, hostv, dptr, owned, q, oob, outv>>

\* hipMemcpy(deviceX.get(), hostX.get(), SIZE, hipMemcpyHostToDevice)
\* (part_000: hipMemcpyWithStream on the thread's stream)
H2D(t) ==
    /\ At(t, "h2d")
    /\ \E status \in StatusCodes :
          /\ status = hipSuccess => Idle(rev, t)
          /\ Checked(t, status, Cur(t).chk, Cur(t).note, Advance(t))
          /\ IF status = hipSuccess
             THEN LET p == dptr[t][Cur(t).x]
                      n == SIZE \div SizeofFloat
                  IN  /\ dmem' = [dmem EXCEPT ![p[2]].data =
                                     CopyInto(@, hvec[t][Cur(t).x], n)]
                      /\ oob' = (oob \/ dmem[p[2]].bytes < SIZE)
             ELSE UNCHANGED <<dmem, oob>>
    /\ UNCHANGED <<rev, envv, clsv, hostv, dptr, owned, q, outv>>

\* hipMemcpy(hostA.get(), deviceA.get(), SIZE, hipMemcpyDeviceToHost)
D2H(t) ==
    /\ At(t, "d2h")
    /\ \E status \in StatusCodes :
          /\ status = hipSuccess => Idle(rev, t)
          /\ Checked(t, status, Cur(t).chk, Cur(t).note, Advance(t))
          /\ IF status = hipSuccess
             THEN LET p == dptr[t][Cur(t).x]
                      n == SIZE \div SizeofFloat
                  IN  /\ hvec' = [hvec EXCEPT ![t][Cur(t).x] =
                                     CopyInto(@, Content(p), n)]
                      /\ oob' = (oob \/ dmem[p[2]].bytes < SIZE)
             ELSE UNCHANGED <<hvec, oob>>
    /\ UNCHANGED <<rev, envv, clsv, hstate, pinned, pinlog, tmp, dptr, owned, dmem, q, outv>>

\* variant: the pinned-memory launches are handed the device buffers again
Args_deviceOnly(t, which) == <<dptr[t]["A"], dptr[t]["B"], dptr[t]["C"]>>

\* void *argsD[] = {&deviceA.get(), ...} / void *argsH[] = {&tmpA1, ...}
Args(t, which) ==
    IF which = "D" THEN <<dptr[t]["A"], dptr[t]["B"], dptr[t]["C"]>>
    ELSE <<tmp[t]["A"], tmp[t]["B"], tmp[t]["C"]>>

\* hipModuleLaunchKernel(function, globalr, 1, 1, localr, 1, 1, 0, stream, args, nullptr)
hipModuleLaunchKernel(t, fn, which) ==
    [fn |-> fn, grid |-> globalr(rev, fn), block |-> localr(rev, fn),
     args |-> Args(t, which), by |-> t]

Submit(t, l) == q' = [q EXCEPT ![StreamOf(rev, t)] = Append(@, l)]

\* part_001 / part_002: one launch, no synchronization of its own
Launch(t) ==
    /\ At(t, "launch")
    /\ \E status \in StatusCodes :
          /\ Checked(t, status, Cur(t).chk, Cur(t).note, Advance(t))
          /\ IF status = hipSuccess
             THEN Submit(t, hipModuleLaunchKernel(t, Cur(t).fn, Cur(t).x))
             ELSE UNCHANGED q
    /\ UNCHANGED <<rev, envv, clsv, hostv, dptr, owned, dmem, oob, outv>>

(***************************************************************************)
(* runkernel (written inline in VectorAdd/main.cpp).                       *)
(***************************************************************************)
\* the context handed to the check of a launch: name, where a check takes one
LaunchNote(t) == IF Cur(t).chk = "throw" THEN Cur(t).fn ELSE ""

\* Timer timer; const int globalr = ...; const int localr = ...;
RK_Begin(t) ==
    /\ At(t, "runkernel") /\ rk[t].st = "off"
    /\ rk' = [rk EXCEPT ![t] = [st |-> "tp", i |-> 0]]
    /\ Stay
    /\ UNCHANGED <<rev, envv, clsv, failed, hostv, devv, errors, metrics, report, stderr>>

\* for (i < LOOP) launch
RK_Launch(t) ==
    /\ At(t, "runkernel") /\ rk[t].st = "tp" /\ rk[t].i < LOOP
    /\ \E status \in StatusCodes :
          /\ Checked(t, status, Cur(t).chk, LaunchNote(t), Stay)
          /\ IF status = hipSuccess
             THEN /\ Submit(t, hipModuleLaunchKernel(t, Cur(t).fn, Cur(t).x))
                  /\ rk' = [rk EXCEPT ![t].i = @ + 1]
             ELSE UNCHANGED <<q, rk>>
    /\ UNCHANGED <<rev, envv, clsv, hostv, dptr, owned, dmem, oob, errors, metrics, report, stderr>>

\* variant: the synchronization returns without waiting for the launches
RK_Sync_noWait(t) ==
    /\ At(t, "runkernel") /\ rk[t].st = "tp" /\ rk[t].i = LOOP
    /\ \E status \in StatusCodes :
          /\ Checked(t, status, Cur(t).chk, "", Stay)
          /\ rk' = IF status = hipSuccess THEN [rk EXCEPT ![t].st = "stop"] ELSE rk
    /\ UNCHANGED <<rev, envv, clsv, hostv, devv, errors, metrics, report, stderr>>

\* hipDeviceSynchronize() / hipStreamSynchronize(stream) after the loop
RK_Sync(t) ==
    /\ At(t, "runkernel") /\ rk[t].st = "tp" /\ rk[t].i = LOOP
    /\ \E status \in StatusCodes :
          /\ status = hipSuccess => Idle(rev, t)
          /\ Checked(t, status, Cur(t).chk, "", Stay)
          /\ rk' = IF status = hipSuccess THEN [rk EXCEPT ![t].st = "stop"] ELSE rk
    /\ UNCHANGED <<rev, envv, clsv, hostv, devv, errors, metrics, report, stderr>>

\* (LOOP * 1000000.0) / delayD, a double: kept as numerator and denominator
Throughput(r, delayD) == [num |-> LOOP * TputScale(r), den |-> delayD]

\* delayD / LOOP, long long by int
AverageLatency(delayD) == delayD \div LOOP

MetricsLine(r, kind, delayD) ==
    [kind |-> kind, loops |-> LOOP, delay |-> delayD,
     num |-> Throughput(r, delayD).num, den |-> Throughput(r, delayD).den,
     lat |-> IF PrintsLatency(r) THEN AverageLatency(delayD) ELSE 0]

\* auto delayD = timer.stop(); print the throughput metrics
RK_Stop(t) ==
    /\ At(t, "runkernel") /\ rk[t].st = "stop"
    /\ \E delayD \in 0 .. MaxDelay : metrics' = MetricsLine(rev, "throughput", delayD)
    /\ IF HasLatencyRun(rev)
       THEN rk' = [rk EXCEPT ![t] = [st |-> "lat", i |-> 0]] /\ Stay
       ELSE rk' = [rk EXCEPT ![t] = RkOff] /\ Advance(t)
    /\ UNCHANGED <<rev, envv, clsv, failed, hostv, devv, errors, report, stderr>>

\* latency run: launch ...
RK_LatLaunch(t) ==
    /\ At(t, "runkernel") /\ rk[t].st = "lat" /\ rk[t].i < LOOP
    /\ \E status \in StatusCodes :
          /\ Checked(t, status, Cur(t).chk, LaunchNote(t), Stay)
          /\ IF status = hipSuccess
             THEN /\ Submit(t, hipModuleLaunchKernel(t, Cur(t).fn, Cur(t).x))
                  /\ rk' = [rk EXCEPT ![t].st = "latsync"]
             ELSE UNCHANGED <<q, rk>>
    /\ UNCHANGED <<rev, envv, clsv, hostv, dptr, owned, dmem, oob, errors, metrics, report, stderr>>

\* ... then hipDeviceSynchronize() inside the loop
RK_LatSync(t) ==
    /\ At(t, "runkernel") /\ rk[t].st = "latsync"
    /\ \E status \in StatusCodes :
          /\ status = hipSuccess => Idle(rev, t)
          /\ Checked(t, status, Cur(t).chk, "", Stay)
          /\ rk' = IF status = hipSuccess
                   THEN [rk EXCEPT ![t] = [st |-> "lat", i |-> @.i + 1]] ELSE rk
    /\ UNCHANGED <<rev, envv, clsv, hostv, devv, errors, metrics, report, stderr>>

\* delayD = timer.stop(); print the latency metrics
RK_LatStop(t) ==
    /\ At(t, "runkernel") /\ rk[t].st = "lat" /\ rk[t].i = LOOP
    /\ \E delayD \in 0 .. MaxDelay : metrics' = MetricsLine(rev, "latency", delayD)
    /\ rk' = [rk EXCEPT ![t] = RkOff]
    /\ Advance(t)
    /\ UNCHANGED <<rev, envv, clsv, failed, hostv, devv, errors, report, stderr>>

(***************************************************************************)
(* Validation and reporting.                                               *)
(***************************************************************************)
\* indices at which hostA[i] != (hostB[i] + hostC[i])
Mismatches(h) == {k \in DOMAIN h["A"] : h["A"][k] # FloatAdd(h["B"][k], h["C"][k])}

\* variant: the scan counts every mismatch and resets nothing
ScanPhase1_countAll(h, e) ==
    [a |-> h["A"], errors |-> e + Cardinality(Mismatches(h))]

\* Phase 1: for (i = 0; i < LEN; i++)
\*              { if (hostA[i] != (hostB[i] + hostC[i])) { errors++; break; }
\*                hostA[i] = 0.0; }
RECURSIVE ScanLoop(_, _, _)
ScanLoop(h, e, i) ==
    IF ~(i < LEN) THEN [a |-> h["A"], errors |-> e]
    ELSE IF h["A"][i] # FloatAdd(h["B"][i], h["C"][i])
         THEN [a |-> h["A"], errors |-> e + 1]
         ELSE ScanLoop([h EXCEPT !["A"][i] = 0], e, i + 1)

ScanPhase1(h, e) == ScanLoop(h, e, 0)

\* Phase 2: for (i) { if (match) continue; errors++; break; }
\* (VectorAdd/main.cpp: errors = 1)
ScanPhase2(h, e, set) ==
    IF Mismatches(h) = {} THEN e ELSE IF set THEN 1 ELSE e + 1

\* part_001: every mismatch is counted
ScanAll(h, e) == e + Cardinality(Mismatches(h))

Validate(t) ==
    /\ At(t, "validate")
    /\ LET h == hvec[t]
           how == Cur(t).x
       IN  CASE how = "phase1" ->
                  /\ hvec' = [hvec EXCEPT ![t]["A"] = ScanPhase1(h, errors[t]).a]
                  /\ errors' = [errors EXCEPT ![t] = ScanPhase1(h, errors[t]).errors]
                  /\ Advance(t)
                  /\ UNCHANGED hostderef
             [] how = "phase2" ->
                  /\ errors' = [errors EXCEPT ![t] = ScanPhase2(h, @, FALSE)]
                  /\ Advance(t)
                  /\ UNCHANGED <<hvec, hostderef>>
             [] how = "phase2set" ->
                  /\ errors' = [errors EXCEPT ![t] = ScanPhase2(h, @, TRUE)]
                  /\ Advance(t)
                  /\ UNCHANGED <<hvec, hostderef>>
             [] how = "all" ->
                  /\ errors' = [errors EXCEPT ![t] = ScanAll(h, @)]
                  /\ Advance(t)
                  /\ UNCHANGED <<hvec, hostderef>>
             [] how = "deref" ->
                  \* part_002: on a host mismatch the scan reads deviceA.get()[i]
                  \* from host code; the read may fault or yield any value.
                  IF Mismatches(h) = {}
                  THEN Advance(t) /\ UNCHANGED <<hvec, errors, hostderef>>
                  ELSE \E outcome \in {"fault", "equal", "differ"} :
                          /\ hostderef' = TRUE
                          /\ IF outcome = "fault"
                             THEN proc' = [st |-> "aborted", code |-> 128 + 11]
                                  /\ UNCHANGED <<pc, tstate, exc>>
                             ELSE Advance(t)
                          /\ errors' = IF outcome = "differ"
                                       THEN [errors EXCEPT ![t] = 1] ELSE errors
                          /\ UNCHANGED hvec
             [] OTHER ->
                  \* if (validate) is false: nothing is scanned
                  Advance(t) /\ UNCHANGED <<hvec, errors, hostderef>>
    /\ UNCHANGED <<rev, devfault, clsv, failed, hstate, pinned, pinlog, tmp, devv, rk, metrics,
                   report, stderr>>

\* if (errors) std::cout << "FAILED" ... else std::cout << "PASSED" ...
Verdict(e) == IF e # 0 THEN "FAILED" ELSE "PASSED"

Report(t) ==
    /\ At(t, "report")
    /\ report' = [report EXCEPT ![t] = Append(@, Verdict(errors[t]))]
    /\ Advance(t)
    /\ UNCHANGED <<rev, envv, clsv, failed, hostv, devv, errors, rk, metrics, stderr>>

(***************************************************************************)
(* Pinning.                                                                *)
(***************************************************************************)
\* hipHostRegister(hostX.get(), SIZE, hipHostRegisterDefault)
Register(t) ==
    /\ At(t, "register")
    /\ \E status \in StatusCodes :
          /\ Checked(t, status, Cur(t).chk, Cur(t).note, Advance(t))
          /\ IF status = hipSuccess
             THEN /\ pinned' = [pinned EXCEPT ![t] = @ \cup {Cur(t).x}]
                  /\ pinlog' = [pinlog EXCEPT ![t] = Append(@, <<"register", Cur(t).x>>)]
             ELSE UNCHANGED <<pinned, pinlog>>
    /\ UNCHANGED <<rev, envv, clsv, hvec, hstate, tmp, devv, outv>>

\* hipHostGetDevicePointer(&tmpX1, hostX.get(), 0)
GetDevPtr(t) ==
    /\ At(t, "getdevptr")
    /\ \E status \in StatusCodes :
          /\ status = hipSuccess => Cur(t).x \in pinned[t]
          /\ Checked(t, status, Cur(t).chk, Cur(t).note, Advance(t))
          /\ tmp' = IF status = hipSuccess
                    THEN [tmp EXCEPT ![t][Cur(t).x] = HostPtr(t, Cur(t).x)] ELSE tmp
    /\ UNCHANGED <<rev, envv, clsv, hvec, hstate, pinned, pinlog, devv, outv>>

\* hipHostUnregister(hostX.get())
Unregister(t) ==
    /\ At(t, "unregister")
    /\ \E status \in StatusCodes :
          /\ Checked(t, status, Cur(t).chk, Cur(t).note, Advance(t))
          /\ IF status = hipSuccess
             THEN /\ pinned' = [pinned EXCEPT ![t] = @ \ {Cur(t).x}]
                  /\ pinlog' = [pinlog EXCEPT ![t] = Append(@, <<"unregister", Cur(t).x>>)]
             ELSE UNCHANGED <<pinned, pinlog>>
    /\ UNCHANGED <<rev, envv, clsv, hvec, hstate, tmp, devv, outv>>

(***************************************************************************)
(* Threads of the multi-stream harness.                                    *)
(***************************************************************************)
\* std::thread(mainworkerthread, ...)
Spawn(t) ==
    /\ At(t, "spawn")
    /\ tstate' = [tstate EXCEPT ![Cur(t).x] = "run"]
    /\ pc' = [pc EXCEPT ![t] = @ + 1]
    /\ UNCHANGED <<rev, envv, clsv, exc, proc, failed, hostv, devv, outv>>

\* variant: join returns without waiting for the thread
Join_noWait(t) ==
    /\ At(t, "join")
    /\ Advance(t)
    /\ UNCHANGED <<rev, envv, clsv, failed, hostv, devv, outv>>

\* vaddthread.join() / nopthread.join()
Join(t) ==
    /\ At(t, "join")
    /\ tstate[Cur(t).x] = "done"
    /\ Advance(t)
    /\ UNCHANGED <<rev, envv, clsv, failed, hostv, devv, outv>>

(***************************************************************************)
(* Leaving a scope: return, or an exception on its way to a handler.       *)
(***************************************************************************)
Return(t) ==
    /\ At(t, "return")
    /\ tstate' = [tstate EXCEPT ![t] = "exit"]
    /\ UNCHANGED <<rev, envv, clsv, pc, exc, proc, failed, hostv, devv, outv>>

Last(seq) == seq[Len(seq)]
Front(seq) == SubSeq(seq, 1, Len(seq) - 1)

\* ~deviceBO() / ~DeviceBO() noexcept of the owner constructed last:
\* errorCheck(hipFree(_buffer)), or HIP_ASSERT(hipFree(_buffer)).  A throw out
\* of the noexcept destructor is std::terminate; a failed assert is abort.
DestroyBO(t) ==
    /\ Leaving(t) /\ owned[t] # <<>>
    /\ \E status \in StatusCodes :
          /\ failed' = (failed \/ status # hipSuccess)
          /\ IF status = hipSuccess
             THEN /\ dmem' = hipFree(dmem, dptr[t][Last(owned[t])])
                  /\ owned' = [owned EXCEPT ![t] = Front(@)]
                  /\ Stay
             ELSE Abort /\ UNCHANGED <<dmem, owned>>
    /\ UNCHANGED <<rev, envv, clsv, hostv, dptr, q, oob, outv>>

\* ~unique_ptr<float[]> of hostC, hostB, hostA
HostFree(t) ==
    /\ Leaving(t) /\ owned[t] = <<>> /\ hstate[t] = "live"
    /\ hstate' = [hstate EXCEPT ![t] = "freed"]
    /\ pinlog' = [pinlog EXCEPT ![t] = @ \o <<<<"free", "C">>, <<"free", "B">>, <<"free", "A">>>>]
    /\ Stay
    /\ UNCHANGED <<rev, envv, clsv, failed, hvec, pinned, tmp, devv, outv>>

\* The scope is left.  main's handler (part_003, part_000):
\*   catch (std::exception &e) { std::cerr << e.what() << std::endl; return 1; }
\* A worker thread that returns has finished and can be joined.
Leave(t) ==
    /\ Leaving(t) /\ owned[t] = <<>> /\ hstate[t] # "live"
    /\ IF t = "main"
       THEN IF tstate[t] = "exit"
            THEN /\ proc' = [st |-> "exited",
                             code |-> MainReturns(rev, IF Cur(t).x = "errors"
                                                       THEN errors[t] ELSE 0)]
                 /\ UNCHANGED <<pc, tstate, exc, stderr>>
            ELSE /\ stderr' = exc[t].what
                 /\ proc' = [st |-> "exited", code |-> 1]
                 /\ UNCHANGED <<pc, tstate, exc>>
       ELSE /\ tstate' = [tstate EXCEPT ![t] = "done"]
            /\ UNCHANGED <<pc, exc, proc, stderr>>
    /\ UNCHANGED <<rev, envv, clsv, failed, hostv, devv, errors, rk, metrics, report>>

(***************************************************************************)
(* The device: the launch at the head of a stream runs.                    *)
(***************************************************************************)
Kernel(fn, a, b, c, grid, block) ==
    IF fn = NOP_KERNELNAME THEN mynop(a, b, c, grid, block)
    ELSE vectoradd(a, b, c, grid, block)

\* the kernel touches an index outside one of its three buffers
OutOfRange(l) ==
    /\ l.fn # NOP_KERNELNAME
    /\ \E k \in 1 .. 3 : ~(LaneIndices(l.grid, l.block) \subseteq DOMAIN Content(l.args[k]))

\* what is in the output buffer after the launch: a defective device
\* leaves the elements of the lanes in devfault as they were
Stored(old, result) ==
    [j \in DOMAIN old |-> IF j \in devfault THEN old[j] ELSE result[j]]

DeviceExec(s) ==
    /\ proc.st = "running" /\ q[s] # <<>>
    /\ LET l == Head(q[s])
           p == l.args[1]
           new == Stored(Content(p),
                         Kernel(l.fn, Content(p), Content(l.args[2]), Content(l.args[3]),
                                l.grid, l.block))
       IN  /\ dmem' = IF p[1] = "dev" /\ dmem[p[2]].st = "live"
                      THEN [dmem EXCEPT ![p[2]].data = new] ELSE dmem
           /\ hvec' = IF p[1] = "host" /\ hstate[p[2]] = "live"
                      THEN [hvec EXCEPT ![p[2]][p[3]] = new] ELSE hvec
           /\ oob' = (oob \/ OutOfRange(l))
    /\ q' = [q EXCEPT ![s] = Tail(@)]
    /\ UNCHANGED <<rev, envv, clsv, ctl, failed, hstate, pinned, pinlog, tmp, dptr, owned, outv>>

\* one step of thread t
Step(t) ==
    \/ RtCall(t) \/ ShowInfo(t) \/ HostInit(t) \/ Malloc(t) \/ Free(t)
    \/ H2D(t) \/ D2H(t) \/ Launch(t)
    \/ RK_Begin(t) \/ RK_Launch(t) \/ RK_Sync(t) \/ RK_Stop(t)
    \/ RK_LatLaunch(t) \/ RK_LatSync(t) \/ RK_LatStop(t)
    \/ Validate(t) \/ Report(t)
    \/ Register(t) \/ GetDevPtr(t) \/ Unregister(t)
    \/ Spawn(t) \/ Join(t)
    \/ Return(t) \/ DestroyBO(t) \/ HostFree(t) \/ Leave(t)

Next ==
    \/ \E t \in T : Step(t)
    \/ \E s \in Streams : DeviceExec(s)

Spec == Init /\ [][Next]_vars

\* The drivers on a device whose kernel result is wrong in some lanes: the
\* case the validation scans exist for.
Faults == {{1}, {0, LEN - 1}}

InitFault ==
    /\ rev \in Revs
    /\ devfault \in Faults
    /\ tstate = [t \in T |-> IF t = "main" THEN "run" ELSE "idle"]
    /\ InitState

SpecFault == InitFault /\ [][Next]_vars

(***************************************************************************)
(* Properties.                                                             *)
(***************************************************************************)
\* thread t is about to execute statement op / x
Before(t, op, x) == tstate[t] = "run" /\ Cur(t).op = op /\ Cur(t).x = x

\* a statement op with x in xs lies behind thread t
\* by revision and thread: the position after the first statement (op, x),
\* 0 when the thread's program has none
Ops == {"validate"}
Marks == {"phase1", "phase2", "phase2set", "skip"}
FirstAfter ==
    [r \in Revs |-> [t \in T |-> [op \in Ops |-> [x \in Marks |->
        LET at == {k \in 1 .. Len(Program(r, t)) :
                      Program(r, t)[k].op = op /\ Program(r, t)[k].x = x}
        IN  IF at = {} THEN 0 ELSE 1 + Lowest(at)]]]]

Past(t, op, xs) ==
    /\ tstate[t] # "idle"
    /\ \E x \in xs : FirstAfter[rev][t][op][x] # 0 /\ FirstAfter[rev][t][op][x] <= pc[t]

\* every launch submitted and not yet executed
Launches == UNION {{q[s][k] : k \in 1 .. Len(q[s])} : s \in Streams}

Expected == [i \in 0 .. LEN - 1 |-> 3 * i]

\* C1: when Phase 1 (init, copy B and C in, LOOP launches of vectoradd,
\* synchronize, copy A back) has completed, host A[i] = B[i] + C[i] = 3*i for
\* every i in [0, LEN), and the Phase 1 validation leaves the error count at 0.
C1_Phase1Sum ==
    \A t \in T :
        /\ Before(t, "validate", "phase1") =>
              /\ hvec[t]["A"] = Expected
              /\ \A i \in 0 .. LEN - 1 :
                    hvec[t]["A"][i] = FloatAdd(hvec[t]["B"][i], hvec[t]["C"][i])
        /\ (Past(t, "validate", {"phase1"}) /\ ~Past(t, "validate", {"phase2", "phase2set"}))
              => errors[t] = 0

C1_Witness ==
    \E t \in T :
        /\ Past(t, "validate", {"phase1"}) /\ Before(t, "report", "")
        /\ errors[t] = 0 /\ report[t] = <<>>
        /\ hvec[t]["A"] = Arr(LEN, 0)
        /\ \E x \in Vec : dptr[t][x] # Null /\ Content(dptr[t]["A"]) = Expected

\* C2: every launch of the add kernel, in every revision, has
\* grid * block = LEN, and its lanes' indices cover each value of [0, LEN)
\* exactly once and no value outside.
C2_AddGeometry ==
    \A l \in Launches :
        l.fn = KERNELNAME =>
            /\ l.grid * l.block = LEN
            /\ l.grid = LEN \div THREADS_PER_BLOCK_X /\ l.block = THREADS_PER_BLOCK_X
            /\ LaneIndices(l.grid, l.block) = 0 .. LEN - 1
            /\ \A j \in 0 .. LEN - 1 : LaneCount(l.grid, l.block, j) = 1

C2_Witness ==
    /\ \E l \in Launches : l.fn = KERNELNAME /\ l.grid > 1 /\ l.block > 1
    /\ rev = "part_002"

\* C3: every launch of the kernel named "mynop" has grid = 1 and block = 1;
\* every launch of another kernel has grid = LEN / THREADS_PER_BLOCK_X and
\* block = THREADS_PER_BLOCK_X.
C3_NopGeometry ==
    \A l \in Launches :
        IF l.fn = NOP_KERNELNAME
        THEN l.grid = 1 /\ l.block = 1
        ELSE l.grid = LEN \div THREADS_PER_BLOCK_X /\ l.block = THREADS_PER_BLOCK_X

\* C4: for every elapsed time > 0 the throughput printed by runkernel
\* (operations per second) times the average latency it prints (microseconds,
\* taken as seconds) is 1:  (num / den) * (lat / 1000000) = 1.
C4_Reciprocal ==
    (metrics.kind # "none" /\ PrintsLatency(rev) /\ metrics.delay > 0)
        => metrics.num * metrics.lat = metrics.den * Million

(***************************************************************************)
(* The device buffer owner on its own: the operations the class             *)
(* deviceBO / DeviceBO admits on its objects.  The class declares a         *)
(* constructor, a destructor and get(); it declares no copy constructor,    *)
(* so the compiler supplies the member-wise one.                            *)
(***************************************************************************)
\* how the class of revision r checks hipMalloc and hipFree
OwnerCheck(r) == IF r \in ThrowRevs THEN "throw" ELSE "assert"

\* deviceBO(size_t size) : _buffer(nullptr) { check(hipMalloc(&_buffer, ...)); }
BO_Construct(o) ==
    /\ proc.st = "running" /\ bo[o].st = "none"
    /\ \E status \in StatusCodes :
          /\ status = hipSuccess => FreshAddr # {}
          /\ failed' = (failed \/ status # hipSuccess)
          /\ IF status = hipSuccess
             THEN LET a == Lowest(FreshAddr)
                  IN  /\ dmem' = [dmem EXCEPT ![a] =
                                   [st |-> "live", bytes |-> SIZE, data |-> Arr(LEN, Garbage)]]
                      /\ bo' = [bo EXCEPT ![o] = [st |-> "live", buffer |-> DevPtr(a)]]
                      /\ UNCHANGED proc
             ELSE IF OwnerCheck(rev) = "throw"
                  THEN \* the constructor throws: no object, no destructor
                       /\ bo' = [bo EXCEPT ![o] = [st |-> "thrown", buffer |-> Null]]
                       /\ UNCHANGED <<dmem, proc>>
                  ELSE /\ proc' = [st |-> "aborted", code |-> 128 + 6]
                       /\ UNCHANGED <<dmem, bo>>
    /\ UNCHANGED <<rev, envv, pc, tstate, exc, hostv, dptr, owned, q, oob, outv, nfree, got>>

\* deviceBO<float> o2(o): the implicit copy constructor copies _buffer
BO_Copy(o, o2) ==
    /\ proc.st = "running" /\ bo[o].st = "live" /\ bo[o2].st = "none"
    /\ bo' = [bo EXCEPT ![o2] = [st |-> "live", buffer |-> bo[o].buffer]]
    /\ UNCHANGED <<rev, envv, ctl, failed, hostv, devv, outv, nfree, got>>

\* T *get() const { return _buffer; }
BO_Get(o) ==
    /\ proc.st = "running" /\ bo[o].st = "live"
    /\ got' = bo[o].buffer
    /\ UNCHANGED <<rev, envv, ctl, failed, hostv, devv, outv, bo, nfree>>

\* ~deviceBO() { check(hipFree(_buffer)); }  The runtime refuses an address
\* that is not a live allocation; any failure ends in abort (a failed
\* assert, or a throw out of a noexcept destructor).
BO_Destroy(o) ==
    /\ proc.st = "running" /\ bo[o].st = "live"
    /\ LET a == bo[o].buffer[2]
       IN  /\ nfree' = [nfree EXCEPT ![a] = @ + 1]
           /\ \E status \in StatusCodes :
                 /\ status = hipSuccess => dmem[a].st = "live"
                 /\ failed' = (failed \/ status # hipSuccess)
                 /\ IF status = hipSuccess
                    THEN /\ dmem' = hipFree(dmem, bo[o].buffer)
                         /\ bo' = [bo EXCEPT ![o].st = "dead"]
                         /\ UNCHANGED proc
                    ELSE /\ proc' = [st |-> "aborted", code |-> 128 + 6]
                         /\ UNCHANGED <<dmem, bo>>
    /\ UNCHANGED <<rev, envv, pc, tstate, exc, hostv, dptr, owned, q, oob, outv, got>>

InitBO ==
    /\ rev \in Revs \ {"part_001"}
    /\ devfault = {}
    /\ tstate = [t \in T |-> "idle"]
    /\ InitState

NextBO ==
    \E o \in 1 .. NObj :
        \/ BO_Construct(o)
        \/ \E o2 \in 1 .. NObj : BO_Copy(o, o2)
        \/ BO_Get(o)
        \/ BO_Destroy(o)

SpecBO == InitBO /\ [][NextBO]_vars

Owners(a) == {o \in 1 .. NObj : bo[o].st = "live" /\ bo[o].buffer = DevPtr(a)}

\* C6: every allocation obtained by a device buffer owner has exactly one
\* owner and is freed exactly once, at that owner's destruction: no operation
\* on an owner (copying it, get()) yields a second owner of the allocation,
\* and a construction whose allocation fails leaves nothing a destructor frees.
C6_ExclusiveOwner ==
    /\ \A a \in 1 .. NAddr :
          /\ Cardinality(Owners(a)) <= 1
          /\ nfree[a] <= 1
          /\ (dmem[a].st = "live" => Cardinality(Owners(a)) = 1)
          /\ (dmem[a].st = "freed" => nfree[a] = 1 /\ Owners(a) = {})
    /\ \A o \in 1 .. NObj : bo[o].st = "thrown" => bo[o].buffer = Null

RECURSIVE Events(_, _)
Events(log, kind) ==
    IF log = <<>> THEN <<>>
    ELSE IF Head(log)[1] = kind THEN <<Head(log)[2]>> \o Events(Tail(log), kind)
    ELSE Events(Tail(log), kind)

Reverse(seq) == [k \in 1 .. Len(seq) |-> seq[Len(seq) + 1 - k]]
IsPrefix(a, b) == Len(a) <= Len(b) /\ SubSeq(b, 1, Len(a)) = a

\* C7: on every path, a host vector is never released while still pinned:
\* each registered vector is unregistered before its memory is freed, and
\* the unregistrations come in the reverse of the registration order.
C7_UnpinBeforeFree ==
    \A t \in T :
        /\ hstate[t] = "freed" => pinned[t] = {}
        /\ IsPrefix(Events(pinlog[t], "unregister"), Reverse(Events(pinlog[t], "register")))

\* the threads holding pointer p
Holders(p) ==
    IF p[1] = "host" THEN {p[2]}
    ELSE {t \in T : \E x \in Vec : dptr[t][x] = p}

\* C8: in the two-thread harness, under every interleaving, the add-kernel
\* thread's error count is 0 as when it runs alone, and no operation of the
\* no-op thread uses a buffer of the add-kernel thread: every launch goes to
\* its thread's own stream with that thread's own buffers, and the two
\* threads' device buffers are distinct.
C8_Isolation ==
    rev = "part_000" =>
        /\ errors["vadd"] = 0
        /\ \A k \in 1 .. Len(report["vadd"]) : report["vadd"][k] = "PASSED"
        /\ \A s \in Streams : \A k \in 1 .. Len(q[s]) :
              /\ StreamOf(rev, q[s][k].by) = s
              /\ \A n \in 1 .. 3 : Holders(q[s][k].args[n]) = {q[s][k].by}
        /\ \A x \in Vec, y \in Vec :
              dptr["vadd"][x] # Null => dptr["vadd"][x] # dptr["nop"][y]
        /\ oob = FALSE

C8_Witness ==
    /\ rev = "part_000"
    /\ Past("vadd", "validate", {"phase2"}) /\ errors["vadd"] = 0
    /\ report["vadd"] = <<"PASSED">>
    /\ q["nopstream"] # <<>> /\ tstate["nop"] = "run"
    /\ hvec["vadd"]["A"] = Expected

\* C9: the check called with a non-success status and context X raises a
\* failure whose message is X, ": ", the runtime's description of the code,
\* " (", the code's symbolic name, ")" in that order; with the success
\* status it raises nothing.
C9_Message ==
    /\ \A t \in T :
          exc[t].code # hipSuccess =>
              /\ Len(exc[t].what) >= 6
              /\ SubSeq(exc[t].what, 1, 6) =
                    <<exc[t].note, ": ", hipGetErrorString(exc[t].code), " (",
                      hipGetErrorName(exc[t].code), ")">>
    /\ ~failed => \A t \in T : exc[t] = NoExc /\ tstate[t] # "unwind"
    /\ \A t \in T : (exc[t] = NoExc) = (tstate[t] # "unwind")

C9_Witness ==
    \E t \in T :
        /\ exc[t].code = 2 /\ exc[t].note = NOP_FILENAME
        /\ exc[t].what[1] = NOP_FILENAME /\ exc[t].what[3] = "out of memory"
        /\ exc[t].what[5] = "hipErrorOutOfMemory"

\* C10: in the exception-based revisions a non-success status from any
\* runtime call, on any thread, reaches the handler in main, which prints
\* the failure to the error stream, and the process exits with status 1.
C10_HandlerExit1 ==
    (rev \in ThrowRevs /\ failed /\ proc.st # "running")
        => (proc.st = "exited" /\ proc.code = 1 /\ stderr # <<>>)

Range(seq) == {seq[k] : k \in 1 .. Len(seq)}

\* C11: a validation mismatch is not fatal: in every revision, when a scan
\* has recorded an error and no runtime call failed, the driver goes on to
\* the end, has printed FAILED, and the process exits with status 0.
C11_MismatchExit0 ==
    \A t \in T :
        (errors[t] # 0 /\ ~failed) =>
            /\ proc.st # "aborted"
            /\ proc.st = "exited" => (proc.code = 0 /\ "FAILED" \in Range(report[t]))

\* C12: every status a runtime call returns goes through the error check:
\* once a runtime call has returned a non-success status, no thread goes on
\* with the benchmark's statements (the process has ended, or the thread is
\* leaving its scope with the failure).
C12_FailureStops ==
    (failed /\ proc.st = "running") => \A t \in T : tstate[t] # "run"

\* Every thread that can take a step eventually takes one, and the device
\* eventually runs the launch at the head of each stream.
SpecLive ==
    /\ Init /\ [][Next]_vars
    /\ \A t \in T : WF_vars(Step(t))
    /\ \A s \in Streams : WF_vars(DeviceExec(s))

\* main has returned from mainworker, or the process has ended through main
Concluded == tstate["main"] = "exit" \/ (proc.st = "exited" /\ proc.code = 0)

\* What is left to do: every step of a thread or of the device makes it
\* smaller, so a run cannot go on for ever.
RkLeft(r) ==
    CASE r.st = "off"     -> 6 * LOOP + 6
      [] r.st = "tp"      -> 6 * LOOP + 5 - 2 * r.i
      [] r.st = "stop"    -> 4 * LOOP + 4
      [] r.st = "lat"     -> 4 * LOOP + 3 - 4 * r.i
      [] OTHER            -> 4 * LOOP + 1 - 4 * r.i
ThreadLeft(t) ==
    (7 * LOOP + 12) * (Len(Program(rev, t)) + 1 - pc[t])
      + RkLeft(rk[t])
      + (CASE tstate[t] \in {"idle", "run"} -> 2 [] tstate[t] = "done" -> 0 [] OTHER -> 1)
      + Len(owned[t]) + (IF hstate[t] = "live" THEN 1 ELSE 0)
RECURSIVE SumLeft(_)
SumLeft(ts) ==
    IF ts = {} THEN 0
    ELSE LET t == CHOOSE x \in ts : TRUE IN ThreadLeft(t) + SumLeft(ts \ {t})
Left ==
    SumLeft(T) + Len(q["null"]) + Len(q["vaddstream"]) + Len(q["nopstream"])
        + (IF proc.st = "running" THEN 1 ELSE 0)

\* the launches waiting in stream s
InStream(s) == {q[s][k] : k \in 1 .. Len(q[s])}

\* C13: in the two-thread harness mainworker returns, and the process
\* concludes, only after both worker threads have finished; neither worker
\* waits for the other (a worker waits for its own stream only, which holds
\* its own launches only, and with that stream empty it can take its next
\* step with no call failing); and every step of a thread or of the device
\* reduces what is left to do, so that under the fairness of SpecLive both
\* workers finish.
C13_JoinsBoth ==
    /\ [](rev = "part_000" =>
            /\ Concluded => \A w \in Workers : tstate[w] = "done"
            /\ \A w \in Workers :
                  /\ Waited(rev, w) = {StreamOf(rev, w)}
                  /\ \A l \in InStream(StreamOf(rev, w)) : l.by = w
                  /\ (proc.st = "running" /\ tstate[w] \in {"run", "exit"}
                        /\ q[StreamOf(rev, w)] = <<>>)
                        => ENABLED (Step(w) /\ failed' = failed))
    /\ [][Left' < Left]_vars

\* the consequence for the workers under SpecLive
WorkersFinish ==
    \A w \in Workers : (tstate[w] = "run") ~> (tstate[w] = "done" \/ failed)

C13_Witness ==
    /\ rev = "part_000" /\ ~failed
    /\ proc.st = "exited" /\ proc.code = 0
    /\ \A w \in Workers : tstate[w] = "done"

\* C14: in every revision and on every path, the mismatch path included,
\* host code never reads or writes through a device-resident address.
C14_NoHostDeref == ~hostderef

(***************************************************************************)
(* The Phase 1 scan on its own, over every content of hostA.               *)
(***************************************************************************)
\* what an element of hostA may hold when the scan starts
Held(i) == <<0, ToFloat(3 * i), Garbage>>

\* hostB and hostC as the drivers fill them, hostA and errors arbitrary
ScanInput ==
    /\ pc["main"] = 1 /\ tstate["main"] = "idle"
    /\ \E c \in [0 .. LEN - 1 -> 1 .. 3], e \in 0 .. 1 :
          /\ hvec' = [hvec EXCEPT !["main"] =
                        [A |-> [i \in 0 .. LEN - 1 |-> Held(i)[c[i]]],
                         B |-> [i \in 0 .. LEN - 1 |-> ToFloat(i)],
                         C |-> [i \in 0 .. LEN - 1 |-> ToFloat(i * 2)]]]
          /\ errors' = [errors EXCEPT !["main"] = e]
    /\ pc' = [pc EXCEPT !["main"] = 2]
    /\ UNCHANGED <<rev, envv, clsv, tstate, exc, proc, failed, hstate, pinned, pinlog,
                   tmp, devv, rk, metrics, report, stderr>>

ScanApply ==
    /\ pc["main"] = 2 /\ tstate["main"] = "idle"
    /\ hvec' = [hvec EXCEPT !["main"]["A"] = ScanPhase1(hvec["main"], errors["main"]).a]
    /\ errors' = [errors EXCEPT !["main"] = ScanPhase1(hvec["main"], @).errors]
    /\ pc' = [pc EXCEPT !["main"] = 3]
    /\ UNCHANGED <<rev, envv, clsv, tstate, exc, proc, failed, hstate, pinned, pinlog,
                   tmp, devv, rk, metrics, report, stderr>>

InitScan ==
    /\ rev \in {"main_cpp", "part_004", "part_003", "part_000"}
    /\ devfault = {}
    /\ tstate = [t \in T |-> "idle"]
    /\ InitState

NextScan == ScanInput \/ ScanApply

SpecScan == InitScan /\ [][NextScan]_vars

\* C15: the Phase 1 scan goes up from 0 and stops at the first index k where
\* A[k] # B[k] + C[k], adding exactly one error however many elements
\* mismatch; afterwards A[j] = 0 for j < k and A[j] is as before for j >= k;
\* with no mismatch the error count is as before and A is 0 everywhere.
C15_FirstMismatch ==
    [][(pc["main"] = 2 /\ pc'["main"] = 3) =>
          LET h == hvec["main"]
              bad == Mismatches(h)
              after == hvec'["main"]
          IN  /\ after["B"] = h["B"] /\ after["C"] = h["C"]
              /\ IF bad = {}
                 THEN /\ errors'["main"] = errors["main"]
                      /\ \A i \in 0 .. LEN - 1 : after["A"][i] = 0
                 ELSE LET k == Lowest(bad)
                      IN  /\ errors'["main"] = errors["main"] + 1
                          /\ \A j \in 0 .. LEN - 1 :
                                after["A"][j] = IF j < k THEN 0 ELSE h["A"][j]]_vars

C15_Witness ==
    /\ pc["main"] = 3 /\ tstate["main"] = "idle"
    /\ errors["main"] = 1
    /\ hvec["main"]["A"][0] = 0 /\ hvec["main"]["A"][1] = 0
    /\ hvec["main"]["A"][2] = Garbage /\ hvec["main"]["A"][LEN - 1] = Garbage

\* the launches thread t has submitted that the device has not yet run
Outstanding(t) ==
    LET s == StreamOf(rev, t)
    IN  Cardinality({k \in 1 .. Len(q[s]) : q[s][k].by = t})

\* one step of runkernel in thread t, from position r to position r2 with
\* n launches outstanding before and n2 after
RunStep(r, r2, n, n2) ==
    \/ r.st = "off" /\ r2 = [st |-> "tp", i |-> 0] /\ n2 = n
    \/ r.st = "tp" /\ r.i < LOOP /\ r2 = [st |-> "tp", i |-> r.i + 1] /\ n2 = n + 1
    \/ r.st = "tp" /\ r.i = LOOP /\ r2 = [st |-> "stop", i |-> LOOP] /\ n = 0 /\ n2 = 0
    \/ r.st = "stop" /\ r2 \in {RkOff, [st |-> "lat", i |-> 0]} /\ n2 = n
    \/ r.st = "lat" /\ r.i < LOOP /\ r2 = [st |-> "latsync", i |-> r.i] /\ n = 0 /\ n2 = 1
    \/ r.st = "latsync" /\ r2 = [st |-> "lat", i |-> r.i + 1] /\ n = 0 /\ n2 = 0
    \/ r.st = "lat" /\ r.i = LOOP /\ r2 = RkOff /\ n2 = n

\* C16: the throughput run submits exactly LOOP launches with no
\* synchronization between them and then synchronizes exactly once before
\* the timer is stopped; in the latency run every launch is followed by a
\* synchronization before the next one, so at most one launch is outstanding.
C16_LaunchesAndSyncs ==
    /\ [](\A t \in T :
            /\ rk[t].st = "tp" => (Outstanding(t) <= rk[t].i /\ rk[t].i <= LOOP)
            /\ rk[t].st = "stop" => (rk[t].i = LOOP /\ Outstanding(t) = 0)
            /\ rk[t].st = "lat" => (rk[t].i <= LOOP /\ Outstanding(t) = 0)
            /\ rk[t].st = "latsync" => (rk[t].i < LOOP /\ Outstanding(t) <= 1))
    /\ [][\A t \in T :
            rk'[t] # rk[t] => RunStep(rk[t], rk'[t], Outstanding(t), Outstanding(t)')]_vars

C16_Witness ==
    \E t \in T :
        /\ rk[t].st = "tp" /\ rk[t].i = LOOP /\ Outstanding(t) = LOOP
        /\ rev = "part_000"

\* C17: in every revision the throughput printed for a run is LOOP over the
\* elapsed time in seconds: printed throughput times the elapsed whole
\* microseconds is LOOP * 1000000.
C17_ThroughputPerSecond ==
    (metrics.kind # "none" /\ metrics.delay > 0) =>
        metrics.num * metrics.delay = LOOP * Million * metrics.den

\* C18: every device buffer a driver constructs holds exactly LEN elements:
\* the bytes asked of the runtime are LEN * sizeof(float) = SIZE, the size of
\* the host vector it mirrors and of every copy made on it.
C18_BufferBytes ==
    \A a \in 1 .. NAddr : dmem[a].st # "unalloc" => dmem[a].bytes = SIZE

\* C19: in every phase the host reads A (the copy back, the scans) only
\* after the launches its thread submitted have been waited for: no copy
\* back and no scan runs while a launch of the thread is outstanding, the
\* non-blocking streams of the two-thread harness included.
C19_SyncBeforeRead ==
    /\ [](\A t \in T :
            /\ (tstate[t] = "run" /\ Cur(t).op = "validate")
                  => (Outstanding(t) = 0 /\ rk[t] = RkOff)
            /\ (Before(t, "d2h", "A") /\ rev \notin {"part_001", "part_002"})
                  => (Outstanding(t) = 0 /\ rk[t] = RkOff))
    /\ [][\A t \in T :
            (tstate[t] = "run" /\ Cur(t).op = "d2h" /\ pc'[t] # pc[t])
                => Outstanding(t) = 0]_vars

C19_Witness ==
    /\ rev = "part_000"
    /\ Before("vadd", "validate", "phase2") /\ Outstanding("vadd") = 0
    /\ hvec["vadd"]["A"] = Expected
    /\ Outstanding("nop") > 0

\* C20: mainworkerthread called with validate == false keeps its error count
\* 0 whatever its buffers hold, neither scans nor resets hostA, prints PASSED
\* for both phases and returns 0; mainworker drops both threads' results, so
\* the process exits 0 whatever the add thread's error count is.
C20_NoValidate ==
    rev = "part_000" =>
        /\ errors["nop"] = 0
        /\ Range(report["nop"]) \subseteq {"PASSED"}
        /\ Past("nop", "validate", {"skip"}) => hvec["nop"]["A"] = Arr(LEN, Garbage)
        /\ (proc.st = "exited" /\ ~failed) => proc.code = 0

C20_Witness ==
    /\ rev = "part_000"
    /\ proc.st = "exited" /\ proc.code = 0
    /\ errors["vadd"] # 0 /\ "FAILED" \in Range(report["vadd"])
    /\ report["nop"] = <<"PASSED", "PASSED">>
    /\ Mismatches(hvec["nop"]) # {}

====
